---- MODULE Spec2Model ----
(***************************************************************************)
(* Model of brentyi/crossmodal_filtering, lib/panda_training.py and        *)
(* lib/panda_models.py: the rollout drivers, the end-to-end and recurrent  *)
(* training loops, and the forward passes of the Panda dynamics and        *)
(* measurement models.                                                     *)
(*                                                                         *)
(* Tensors are modelled by their shape and by small integer contents.      *)
(* A log-weight log(num/den) is the record [num, den]; exp and sums are    *)
(* computed on the rationals.  A time index t stands for "the state /      *)
(* observation / control of timestep t" of a trajectory or batch.          *)
(***************************************************************************)
EXTENDS Integers, Sequences, FiniteSets, TLC

VARIABLES
    pc,                 \* "idle", a loop position, "returned" or "error"
    op,                 \* the function being executed
    args,               \* its keyword arguments
    error,              \* the exception raised ("" when none)
    lens,               \* rollout: len(states) of every trajectory
    end_time,           \* rollout: end_time
    t,                  \* loop variable t
    N,                  \* trajectory / batch size
    M,                  \* particle count
    timesteps,          \* training: timesteps of the current batch
    batches_left,       \* training: batches the dataloader still yields
    batch_idx,          \* training: number of batches drawn so far
    particles,          \* the particle tensor threaded through the loop
    log_weights,        \* the log-weight tensor threaded through the loop
    ncalls,             \* filter steps (or dynamics calls) made in this sequence
    last_call,          \* arguments of the most recent filter step
    prev_ret,           \* what the filter step before the most recent one returned
    last_ret,           \* what the most recent filter step returned
    predicted_states,   \* rollout: per trajectory, the list of estimates
    actual_states,      \* rollout: per trajectory, the ground-truth slice
    losses,             \* training: the per-timestep losses of the batch
    losses_bound,       \* training: whether the name `losses` is bound
    optimizer_steps,    \* buddy.optimizer_steps
    last_min,           \* arguments of the most recent buddy.minimize
    threaded,           \* (resample, know_image_blackout, attached) of threadings seen
    fwd                 \* the most recent model forward call and its outcome

vars == <<pc, op, args, error, lens, end_time, t, N, M, timesteps,
          batches_left, batch_idx, particles, log_weights, ncalls, last_call,
          prev_ret, last_ret, predicted_states, actual_states, losses,
          losses_bound, optimizer_steps, last_min, threaded, fwd>>

----------------------------------------------------------------------------
\* Bounds of the model

MaxTraj == 2        \* trajectories handed to a rollout
MaxLen == 4         \* length of a trajectory
MaxStart == 2       \* start_time
MaxSteps == 3       \* max_timesteps
MaxM == 2           \* particle count
MaxBatches == 2     \* batches in a dataloader
MaxT == 3           \* timesteps of a batch
MaxN == 2           \* batch size of a forward call
TensorVals == {0, 1}   \* contents a filter step can return

----------------------------------------------------------------------------
\* Python and numeric helpers

Min(S) == CHOOSE x \in S : \A y \in S : x <= y

RECURSIVE SeqsUpTo(_, _)
SeqsUpTo(S, n) ==
    IF n = 0 THEN {<<>>}
    ELSE LET shorter == SeqsUpTo(S, n - 1)
         IN  shorter \cup {Append(s, x) : s \in {q \in shorter : Len(q) = n - 1}, x \in S}

Range(s) == {s[i] : i \in DOMAIN s}

\* seq[a:b] for 0 <= a, 0 <= b (indices are 0-based, the end is exclusive)
PySlice(s, a, b) ==
    LET hi == IF b < Len(s) THEN b ELSE Len(s)
    IN  IF a >= hi THEN <<>> ELSE SubSeq(s, a + 1, hi)

\* range(a, b) as the sequence of values it yields
PyRange(a, b) == [i \in 1..(IF b > a THEN b - a ELSE 0) |-> a + i - 1]

\* np.log(M), as log(M/1)
Log(m) == [num |-> m, den |-> 1]

\* -x for a logarithm x = log(num/den)
Neg(l) == [num |-> l.den, den |-> l.num]

\* exp over a row of log-weights, summed: a rational [num, den]
RECURSIVE SumExp(_)
SumExp(row) ==
    IF row = <<>> THEN [num |-> 0, den |-> 1]
    ELSE LET rest == SumExp(Tail(row))
             h == Head(row)
         IN  [num |-> h.num * rest.den + rest.num * h.den, den |-> h.den * rest.den]

Normalized(lw) == \A n \in DOMAIN lw : SumExp(lw[n]).num = SumExp(lw[n]).den

----------------------------------------------------------------------------
\* Values that stand for "nothing here"

NoTensor == [src |-> "none", center |-> <<>>, noise |-> <<>>, val |-> 0,
             shape |-> <<0, 0>>, grad |-> FALSE]

NoCall == [particles |-> NoTensor, log_weights |-> <<>>, obs |-> -1, ctrl |-> -1,
           resample |-> FALSE, noisy_dynamics |-> FALSE,
           know_image_blackout |-> FALSE]

NoRet == [state_estimates |-> [src |-> "none", obs |-> -1, ctrl |-> -1],
          particles |-> NoTensor, log_weights |-> <<>>]

NoMin == [n_losses |-> -1, after_steps |-> -1, optimizer_name |-> ""]

NoArgs == [fn |-> "none"]

NoFwd == [model |-> "none"]

----------------------------------------------------------------------------
\* The particle filter step, pf_model.forward (lib/dpf.py), by its contract:
\* propagate, weight, normalize, estimate, resample.

\* after resampling every particle weighs 1/m
ResampledLogWeights(n, m) == [i \in 1..n |-> [j \in 1..m |-> [num |-> 1, den |-> m]]]

\* a normalized row that is not uniform for m >= 2: every particle but the
\* last weighs 1/(2m), the last one (m+1)/(2m)
SkewedLogWeights(n, m) ==
    [i \in 1..n |-> [j \in 1..m |->
        IF j < m THEN [num |-> 1, den |-> 2 * m] ELSE [num |-> m + 1, den |-> 2 * m]]]

\* the results a filter step can return for the call c
PFForward(c) ==
    LET n == c.particles.shape[1]
        m == c.particles.shape[2]
        est == [src |-> "step", obs |-> c.obs, ctrl |-> c.ctrl]
        lws == IF c.resample THEN {ResampledLogWeights(n, m)}
               ELSE {ResampledLogWeights(n, m), SkewedLogWeights(n, m)}
    IN  {[state_estimates |-> est,
          particles |-> [src |-> "step", center |-> <<>>, noise |-> <<>>,
                         val |-> v, shape |-> <<n, m>>, grad |-> TRUE],
          log_weights |-> lw] : v \in TensorVals, lw \in lws}

----------------------------------------------------------------------------
\* the loops of panda_training.py

\* torch.ones((N, M), device=device) * (-np.log(M))
UniformBadSign(n, m) == [i \in 1..n |-> [j \in 1..m |-> Log(m)]]
UniformLogWeights(n, m) == [i \in 1..n |-> [j \in 1..m |-> Neg(Log(m))]]

\* the first value a for-loop over r binds (dflt when r is empty: the loop
\* variable is then never read)
LoopFirst(r, dflt) == IF r = <<>> THEN dflt ELSE r[1]

----------------------------------------------------------------------------
\* rollout and rollout_and_eval

\* the states of a trajectory of length l: element t (0-based) is the state
\* of timestep t
States(l) == [k \in 1..l |-> k - 1]

\* end_time = np.min([len(s) for s, _, _ in trajectories] + [start_time + max_timesteps])
EndTime(ls, start_time, max_timesteps) == Min(Range(ls) \cup {start_time + max_timesteps})

\* actual_states = [states[start_time:end_time] for states, _, _ in trajectories]
ActualStates(ls, start_time, et) == [i \in 1..Len(ls) |-> PySlice(States(ls[i]), start_time, et)]

\* the particles before the loop: zeros, or the row trajectories[i][0][0],
\* plus normal noise (the standard deviations, in tenths)
\* (the centre of trajectory i's particles: a state of the trajectory, or -1
\* for the origin that np.zeros leaves)
InitialParticles(fn, ls, m, true_initial) ==
    [src |-> "init",
     center |-> [i \in 1..Len(ls) |-> IF true_initial THEN States(ls[i])[1] ELSE -1],
     noise |-> IF ~true_initial THEN <<10>>
               ELSE IF fn = "rollout" THEN <<1>> ELSE <<2, 2>>,
     val |-> 0, shape |-> <<Len(ls), m>>, grad |-> FALSE]

\* predicted_states = [[np.mean(particles[i], axis=0)] for i in range(len(trajectories))]
InitialPredicted(n) == [i \in 1..n |-> <<[src |-> "init", obs |-> -1, ctrl |-> -1]>>]

\* for t in tqdm(range(start_time + 1, end_time))
RolloutRangeFromStart(start_time, et) == PyRange(start_time, et)
RolloutRange(start_time, et) == PyRange(start_time + 1, et)

\* the arguments of pf_model.forward in the rollout loop
RolloutCallResampleFromFlag(p, lw, tt, noisy_dynamics) ==
    [particles |-> p, log_weights |-> lw, obs |-> tt, ctrl |-> tt,
     resample |-> noisy_dynamics, noisy_dynamics |-> noisy_dynamics,
     know_image_blackout |-> FALSE]
RolloutCall(p, lw, tt, noisy_dynamics) ==
    [particles |-> p, log_weights |-> lw, obs |-> tt, ctrl |-> tt,
     resample |-> TRUE, noisy_dynamics |-> noisy_dynamics,
     know_image_blackout |-> FALSE]

\* np.array(rows).shape, without the state dimension
Shape(rows) == <<Len(rows), Len(rows[1])>>

InRollout == op \in {"rollout", "rollout_and_eval"}

CanStart == pc = "idle"

BlankTraining ==
    /\ timesteps' = 0
    /\ batches_left' = 0
    /\ batch_idx' = 0
    /\ losses' = <<>>
    /\ losses_bound' = FALSE
    /\ optimizer_steps' = 0
    /\ last_min' = NoMin

BlankRollout ==
    /\ lens' = <<>>
    /\ end_time' = 0
    /\ predicted_states' = <<>>
    /\ actual_states' = <<>>

BlankLoop ==
    /\ t' = 0
    /\ N' = 0
    /\ M' = 0
    /\ particles' = NoTensor
    /\ log_weights' = <<>>
    /\ ncalls' = 0
    /\ last_call' = NoCall
    /\ prev_ret' = NoRet
    /\ last_ret' = NoRet

RolloutStart(fn, ls, start_time, max_timesteps, particle_count, noisy_dynamics, true_initial) ==
    LET et == EndTime(ls, start_time, max_timesteps)
        act == ActualStates(ls, start_time, et)
        n == Len(ls)
    IN  /\ CanStart
        /\ op' = fn
        /\ args' = [fn |-> fn, start_time |-> start_time, max_timesteps |-> max_timesteps,
                    particle_count |-> particle_count, noisy_dynamics |-> noisy_dynamics,
                    true_initial |-> true_initial]
        /\ lens' = ls
        /\ end_time' = et
        /\ actual_states' = act
        /\ BlankTraining
        /\ fwd' = NoFwd
        /\ UNCHANGED threaded
        /\ ncalls' = 0
        /\ last_call' = NoCall
        /\ prev_ret' = NoRet
        /\ last_ret' = NoRet
        /\ IF n = 0 \/ act[1] = <<>>
           THEN \* actual_states[0][0] does not exist
                /\ pc' = "error"
                /\ error' = "IndexError"
                /\ t' = 0
                /\ N' = 0
                /\ M' = 0
                /\ particles' = NoTensor
                /\ log_weights' = <<>>
                /\ predicted_states' = <<>>
           ELSE /\ pc' = "rollout_loop"
                /\ error' = ""
                /\ t' = LoopFirst(RolloutRange(start_time, et), et)
                /\ N' = n
                /\ M' = particle_count
                /\ particles' = InitialParticles(fn, ls, particle_count, true_initial)
                /\ log_weights' = UniformLogWeights(n, particle_count)
                /\ predicted_states' = InitialPredicted(n)

\* one iteration of the loop over t
RolloutStep ==
    /\ pc = "rollout_loop"
    /\ t \in Range(RolloutRange(args.start_time, end_time))
    /\ LET call == RolloutCall(particles, log_weights, t, args.noisy_dynamics)
       IN  \E ret \in PFForward(call) :
            /\ last_call' = call
            /\ prev_ret' = last_ret
            /\ last_ret' = ret
            /\ particles' = ret.particles
            /\ log_weights' = ret.log_weights
            /\ predicted_states' =
                 [i \in 1..N |-> Append(predicted_states[i], ret.state_estimates)]
    /\ ncalls' = ncalls + 1
    /\ t' = t + 1
    /\ UNCHANGED <<pc, op, args, error, lens, end_time, N, M, timesteps, batches_left,
                   batch_idx, actual_states, losses, losses_bound, optimizer_steps,
                   last_min, threaded, fwd>>

\* the loop is exhausted: np.array(...) of both lists, and return
RolloutReturn ==
    /\ pc = "rollout_loop"
    /\ t \notin Range(RolloutRange(args.start_time, end_time))
    /\ pc' = "returned"
    /\ UNCHANGED <<op, args, error, lens, end_time, t, N, M, timesteps, batches_left,
                   batch_idx, particles, log_weights, ncalls, last_call, prev_ret,
                   last_ret, predicted_states, actual_states, losses, losses_bound,
                   optimizer_steps, last_min, threaded, fwd>>

----------------------------------------------------------------------------
\* train_e2e

LossTypes == {"mse", "gmm", "l1", "l2", "huber", "peter"}

\* for t in range(1, timesteps)
TrainRangeShort(ts) == PyRange(1, ts - 1)
TrainRange(ts) == PyRange(1, ts)

\* the arguments of pf_model.forward in train_e2e (both branches of
\* know_image_blackout pass the same tensors)
E2ECall(p, lw, tt, resample, know_image_blackout) ==
    [particles |-> p, log_weights |-> lw, obs |-> tt - 1, ctrl |-> tt,
     resample |-> resample, noisy_dynamics |-> TRUE,
     know_image_blackout |-> know_image_blackout]

\* particles = new_particles; log_weights = new_log_weights
Detached(ret) == [particles |-> [ret.particles EXCEPT !.grad = FALSE],
                  log_weights |-> ret.log_weights]
Threaded(ret) == [particles |-> ret.particles, log_weights |-> ret.log_weights]

\* the loss of timestep tt: the estimate (or the new particle set) of the
\* step against batch_states[:, tt, :]
E2ELoss(loss_type, ret, tt) ==
    [kind |-> loss_type, obs |-> ret.state_estimates.obs,
     ctrl |-> ret.state_estimates.ctrl, truth |-> tt]

TrainE2EStart(loss_type, resample, know_image_blackout, nb) ==
    /\ CanStart
    /\ pc' = "e2e_next"
    /\ op' = "train_e2e"
    /\ args' = [fn |-> "train_e2e", loss_type |-> loss_type, optim_name |-> "e2e",
                resample |-> resample, know_image_blackout |-> know_image_blackout]
    /\ error' = ""
    /\ batches_left' = nb
    /\ batch_idx' = 0
    /\ timesteps' = 0
    /\ losses' = <<>>
    /\ losses_bound' = FALSE
    /\ optimizer_steps' = 0
    /\ last_min' = NoMin
    /\ BlankRollout
    /\ BlankLoop
    /\ fwd' = NoFwd
    /\ UNCHANGED threaded

\* the dataloader yields a batch (batch_particles, batch_states, batch_obs, batch_controls)
E2ENextBatch ==
    /\ pc = "e2e_next"
    /\ batches_left > 0
    /\ \E n \in 1..MaxN, m \in 1..MaxM, ts \in 1..MaxT :
        /\ N' = n
        /\ M' = m
        /\ timesteps' = ts
        /\ particles' = [src |-> "batch", center |-> <<>>, noise |-> <<>>, val |-> 0,
                         shape |-> <<n, m>>, grad |-> FALSE]
        /\ log_weights' = UniformLogWeights(n, m)
        /\ t' = LoopFirst(TrainRange(ts), ts)
    /\ pc' = "e2e_loop"
    /\ batches_left' = batches_left - 1
    /\ batch_idx' = batch_idx + 1
    /\ losses' = <<>>
    /\ losses_bound' = TRUE
    /\ ncalls' = 0
    /\ last_call' = NoCall
    /\ prev_ret' = NoRet
    /\ last_ret' = NoRet
    /\ UNCHANGED <<op, args, error, lens, end_time, predicted_states, actual_states,
                   optimizer_steps, last_min, threaded, fwd>>

\* one iteration of the loop over t: the filter step, then the loss
E2EStep ==
    /\ pc = "e2e_loop"
    /\ t \in Range(TrainRange(timesteps))
    /\ LET call == E2ECall(particles, log_weights, t, args.resample, args.know_image_blackout)
       IN  \E ret \in PFForward(call) :
            /\ last_call' = call
            /\ prev_ret' = last_ret
            /\ last_ret' = ret
            /\ IF args.loss_type \in {"gmm", "mse"}
               THEN /\ losses' = Append(losses, E2ELoss(args.loss_type, ret, t))
                    /\ particles' = Threaded(ret).particles
                    /\ log_weights' = Threaded(ret).log_weights
                    /\ threaded' = threaded \cup
                         {[resample |-> args.resample,
                           know_image_blackout |-> args.know_image_blackout,
                           attached |-> Threaded(ret).particles.grad]}
                    /\ t' = t + 1
                    /\ UNCHANGED <<pc, error>>
               ELSE \* assert False, "Invalid loss"
                    /\ pc' = "error"
                    /\ error' = "AssertionError"
                    /\ UNCHANGED <<losses, particles, log_weights, threaded, t>>
    /\ ncalls' = ncalls + 1
    /\ UNCHANGED <<op, args, lens, end_time, N, M, timesteps, batches_left, batch_idx,
                   predicted_states, actual_states, losses_bound, optimizer_steps,
                   last_min, fwd>>

\* after the loop: buddy.minimize(torch.mean(torch.stack(losses)), ...)
E2EMinimize ==
    /\ pc = "e2e_loop"
    /\ t \notin Range(TrainRange(timesteps))
    /\ IF losses = <<>>
       THEN \* torch.stack of an empty list
            /\ pc' = "error"
            /\ error' = "RuntimeError"
            /\ UNCHANGED <<optimizer_steps, last_min>>
       ELSE /\ pc' = "e2e_next"
            /\ optimizer_steps' = optimizer_steps + 1
            /\ last_min' = [n_losses |-> Len(losses), after_steps |-> ncalls,
                            optimizer_name |-> args.optim_name]
            /\ UNCHANGED error
    /\ UNCHANGED <<op, args, lens, end_time, t, N, M, timesteps, batches_left, batch_idx,
                   particles, log_weights, ncalls, last_call, prev_ret, last_ret,
                   predicted_states, actual_states, losses, losses_bound, threaded, fwd>>

\* the dataloader is exhausted: print("Epoch loss:", np.mean(utils.to_numpy(losses)))
E2EEpochEnd ==
    /\ pc = "e2e_next"
    /\ batches_left = 0
    /\ IF losses_bound
       THEN pc' = "returned" /\ UNCHANGED error
       ELSE pc' = "error" /\ error' = "UnboundLocalError"
    /\ UNCHANGED <<op, args, lens, end_time, t, N, M, timesteps, batches_left, batch_idx,
                   particles, log_weights, ncalls, last_call, prev_ret, last_ret,
                   predicted_states, actual_states, losses, losses_bound,
                   optimizer_steps, last_min, threaded, fwd>>

----------------------------------------------------------------------------
\* train_dynamics_recurrent

\* assert loss_type in ('l1', 'l2', 'huber', 'peter')
RecurrentAccepts(loss_type) == loss_type \in {"l1", "l2", "huber", "peter"}

TrainRecurrentStart(loss_type, nb) ==
    /\ CanStart
    /\ op' = "train_dynamics_recurrent"
    /\ args' = [fn |-> "train_dynamics_recurrent", loss_type |-> loss_type,
                optim_name |-> "dynamics_recurrent"]
    /\ IF RecurrentAccepts(loss_type)
       THEN pc' = "rec_next" /\ error' = ""
       ELSE pc' = "error" /\ error' = "AssertionError"
    /\ batches_left' = nb
    /\ batch_idx' = 0
    /\ timesteps' = 0
    /\ losses' = <<>>
    /\ losses_bound' = FALSE
    /\ optimizer_steps' = 0
    /\ last_min' = NoMin
    /\ BlankRollout
    /\ BlankLoop
    /\ fwd' = NoFwd
    /\ UNCHANGED threaded

\* the dataloader yields a batch (batch_states, batch_obs, batch_controls)
RecNextBatch ==
    /\ pc = "rec_next"
    /\ batches_left > 0
    /\ \E n \in 1..MaxN, ts \in 1..MaxT :
        /\ N' = n
        /\ timesteps' = ts
        /\ t' = LoopFirst(TrainRange(ts), ts)
    /\ pc' = "rec_loop"
    /\ batches_left' = batches_left - 1
    /\ batch_idx' = batch_idx + 1
    /\ losses' = <<>>
    /\ losses_bound' = TRUE
    /\ ncalls' = 0
    /\ UNCHANGED <<op, args, error, lens, end_time, M, particles, log_weights, last_call,
                   prev_ret, last_ret, predicted_states, actual_states,
                   optimizer_steps, last_min, threaded, fwd>>

\* one iteration of the loop over t: the dynamics model, then the loss
RecStep ==
    /\ pc = "rec_loop"
    /\ t \in Range(TrainRange(timesteps))
    /\ ncalls' = ncalls + 1
    /\ IF args.loss_type \in {"l1", "l2", "huber"}
       THEN /\ losses' = Append(losses, [kind |-> args.loss_type, obs |-> -1,
                                         ctrl |-> t, truth |-> t])
            /\ t' = t + 1
            /\ UNCHANGED <<pc, error>>
       ELSE \* 'peter': "Currently broken", assert False
            /\ pc' = "error"
            /\ error' = "AssertionError"
            /\ UNCHANGED <<losses, t>>
    /\ UNCHANGED <<op, args, lens, end_time, N, M, timesteps, batches_left, batch_idx,
                   particles, log_weights, last_call, prev_ret, last_ret,
                   predicted_states, actual_states, losses_bound, optimizer_steps,
                   last_min, threaded, fwd>>

\* after the loop: buddy.minimize(torch.mean(torch.stack(losses)), ...)
RecMinimize ==
    /\ pc = "rec_loop"
    /\ t \notin Range(TrainRange(timesteps))
    /\ IF losses = <<>>
       THEN /\ pc' = "error"
            /\ error' = "RuntimeError"
            /\ UNCHANGED <<optimizer_steps, last_min>>
       ELSE /\ pc' = "rec_next"
            /\ optimizer_steps' = optimizer_steps + 1
            /\ last_min' = [n_losses |-> Len(losses), after_steps |-> ncalls,
                            optimizer_name |-> args.optim_name]
            /\ UNCHANGED error
    /\ UNCHANGED <<op, args, lens, end_time, t, N, M, timesteps, batches_left, batch_idx,
                   particles, log_weights, ncalls, last_call, prev_ret, last_ret,
                   predicted_states, actual_states, losses, losses_bound, threaded, fwd>>

\* the dataloader is exhausted: print("Epoch loss:", np.mean(utils.to_numpy(epoch_losses)))
RecEpochEnd ==
    /\ pc = "rec_next"
    /\ batches_left = 0
    /\ pc' = "returned"
    /\ UNCHANGED <<op, args, error, lens, end_time, t, N, M, timesteps, batches_left,
                   batch_idx, particles, log_weights, ncalls, last_call, prev_ret,
                   last_ret, predicted_states, actual_states, losses, losses_bound,
                   optimizer_steps, last_min, threaded, fwd>>

----------------------------------------------------------------------------
\* panda_models.py: tensors of particles are [i \in 1..N |-> [j \in 1..M |-> state]],
\* a state being a tuple of state_dim integers.  The result of a forward is
\* [vals, div2]: vals with the dimensions 2:4 of every state divided by
\* sqrt(div2); div2 = 0 is a division by zero (nan).

StateDim == 2          \* state_dim of the learned networks
ControlDim == 7        \* control_dim of the learned dynamics network

\* what a particle can hold, by its dimension
ParticleVals(d) == IF d = 2 THEN {<<0, 0>>, <<1, 1>>}
                   ELSE {<<0, 0, 1, 0>>, <<1, 1, 0, 1>>}

\* what dist.sample draws for one particle, by len(state_noise_stddev)
NoiseVals(k) == IF k = 2 THEN {<<0, 0>>, <<1, 0>>}
                ELSE {<<0, 0, 0, 0>>, <<1, 0, 1, 1>>}

\* (n, m) tensors over S: all entries equal, or the first one different
Tensors(n, m, S) ==
    {[i \in 1..n |-> [j \in 1..m |-> IF i = 1 /\ j = 1 THEN a ELSE b]] : a \in S, b \in S}

Dim(x) == Len(x[1][1])

\* states + noise, elementwise (both of shape (N, M, d))
AddNoise(x, noise) ==
    [i \in DOMAIN x |-> [j \in DOMAIN x[i] |->
        [d \in DOMAIN x[i][j] |-> x[i][j][d] + noise[i][j][d]]]]

RECURSIVE SumSeq(_)
SumSeq(q) == IF q = <<>> THEN 0 ELSE Head(q) + SumSeq(Tail(q))

\* the squared norm of one particle's dimensions 2:4 (0-based), empty below 4
PairNorm2(st) == IF Len(st) >= 4 THEN st[3] * st[3] + st[4] * st[4] ELSE 0

\* torch.norm(states_new[:, :, 2:4], keepdim=True), squared: one scalar
\* over the whole tensor
Norm2(x) == SumSeq([i \in DOMAIN x |-> SumSeq([j \in DOMAIN x[i] |-> PairNorm2(x[i][j])])])

\* states_new[:, :, 2:4] /= scale (an empty slice when state_dim < 4)
Project(x) == [vals |-> x, div2 |-> IF Dim(x) >= 4 THEN Norm2(x) ELSE 1]

Unscaled(x) == [vals |-> x, div2 |-> 1]

NoOut == [vals |-> <<>>, div2 |-> 1]

\* cos^2 + sin^2 = 1 for particle (i, j) of a result
UnitNorm(out, i, j) ==
    /\ out.div2 > 0
    /\ PairNorm2(out.vals[i][j]) = out.div2

\* PandaSimpleDynamicsModel.forward; the error it raises, "" when none
SimpleRaises(rank, d, k) ==
    IF rank # 3 THEN "AssertionError"          \* len(states_prev.shape) == 3
    ELSE IF d # k THEN "AssertionError"        \* state_dim == len(self.state_noise_stddev)
    ELSE ""

\* The tensors a forward works on: "prev" is the caller's states_prev, "fresh"
\* the tensor an out-of-place operation allocates, ref the one states_new names.
Heap(states_prev) == [ref |-> "prev", prev |-> Unscaled(states_prev), fresh |-> NoOut]

\* states_new = states_new + delta: the sum is a new tensor, which states_new
\* names from then on (states_new += delta would change the old one instead)
AddInPlace(h, delta) == [h EXCEPT ![h.ref] = Unscaled(AddNoise(h[h.ref].vals, delta))]
AddFresh(h, delta) ==
    [ref |-> "fresh", prev |-> h.prev, fresh |-> Unscaled(AddNoise(h[h.ref].vals, delta))]

\* states_new[:, :, 2:4] /= scale: in place, on the tensor states_new names
ProjectInPlace(h) == [h EXCEPT ![h.ref] = Project(h[h.ref].vals)]

SimpleHeap(states_prev, noisy, noise) ==
    IF noisy THEN ProjectInPlace(AddFresh(Heap(states_prev), noise))
    ELSE Heap(states_prev)

\* what forward returns: the tensor states_new names
SimpleForwardAlwaysNoisy(states_prev, noisy, noise) ==
    LET h == SimpleHeap(states_prev, TRUE, noise) IN h[h.ref]
SimpleForward(states_prev, noisy, noise) ==
    LET h == SimpleHeap(states_prev, noisy, noise) IN h[h.ref]

SimpleDynamicsForward(rank, states_prev, controls, noisy, k, noise) ==
    LET raised == SimpleRaises(rank, Dim(states_prev), k)
    IN  /\ pc' = "returned"
        /\ op' = "PandaSimpleDynamicsModel.forward"
        /\ args' = [fn |-> "PandaSimpleDynamicsModel.forward", noisy |-> noisy]
        /\ error' = raised
        /\ fwd' = [model |-> "simple", rank |-> rank, states_prev |-> states_prev,
                   controls |-> controls, noisy |-> noisy, stddev_len |-> k,
                   states_prev_after |-> IF raised # "" THEN Unscaled(states_prev)
                                         ELSE SimpleHeap(states_prev, noisy, noise).prev,
                   out |-> IF raised # "" THEN NoOut
                           ELSE SimpleForward(states_prev, noisy, noise)]
        /\ BlankRollout
        /\ BlankLoop
        /\ BlankTraining
        /\ UNCHANGED threaded

\* the state update of the learned networks for one particle: a function of
\* the particle and of its trajectory's control, with weights w
StateUpdate(w, st, cval) == [d \in DOMAIN st |-> w * (st[d] + cval)]

\* PandaDynamicsModel.forward; the error it raises, "" when none
LearnedIgnoresControlsBatch(rank, n, d, controls, noisy, k) ==
    IF rank # 3 THEN "AssertionError"
    ELSE IF controls.rank # 2 THEN "AssertionError"
    ELSE IF controls.dim # ControlDim THEN "RuntimeError"
    ELSE IF d # StateDim THEN "RuntimeError"
    ELSE IF noisy /\ k # d THEN "AssertionError"
    ELSE ""
LearnedRaises(rank, n, d, controls, noisy, k) ==
    IF rank # 3 THEN "AssertionError"                      \* len(states_prev.shape) == 3
    ELSE IF controls.rank # 2 THEN "AssertionError"        \* len(controls.shape) == 2
    ELSE IF controls.dim # ControlDim THEN "RuntimeError"  \* nn.Linear(control_dim, ...)
    ELSE IF controls.n # n THEN "AssertionError"           \* control_features.shape
    ELSE IF d # StateDim THEN "RuntimeError"               \* nn.Linear(state_dim, ...)
    ELSE IF noisy /\ k # d THEN "AssertionError"           \* noise.shape
    ELSE ""

LearnedHeap(w, states_prev, controls, noisy, noise) ==
    LET upd == [i \in DOMAIN states_prev |-> [j \in DOMAIN states_prev[i] |->
                  StateUpdate(w, states_prev[i][j], controls.val)]]
        states_new == AddFresh(Heap(states_prev), upd)
    IN  IF noisy THEN AddFresh(states_new, noise) ELSE states_new

LearnedForward(w, states_prev, controls, noisy, noise) ==
    LET h == LearnedHeap(w, states_prev, controls, noisy, noise) IN h[h.ref]

DynamicsForward(w, rank, states_prev, controls, noisy, k, noise) ==
    LET raised == LearnedRaises(rank, Len(states_prev), Dim(states_prev), controls, noisy, k)
    IN  /\ pc' = "returned"
        /\ op' = "PandaDynamicsModel.forward"
        /\ args' = [fn |-> "PandaDynamicsModel.forward", noisy |-> noisy]
        /\ error' = raised
        /\ fwd' = [model |-> "learned", rank |-> rank, states_prev |-> states_prev,
                   controls |-> controls, noisy |-> noisy, stddev_len |-> k,
                   states_prev_after |->
                       IF raised # "" THEN Unscaled(states_prev)
                       ELSE LearnedHeap(w, states_prev, controls, noisy, noise).prev,
                   out |-> IF raised # "" THEN NoOut
                           ELSE LearnedForward(w, states_prev, controls, noisy, noise)]
        /\ BlankRollout
        /\ BlankLoop
        /\ BlankTraining
        /\ UNCHANGED threaded

\* the keys PandaMeasurementModel.forward reads, in the order it reads them
ModalityKeys == <<"image", "gripper_pos", "gripper_sensors">>

\* PandaMeasurementModel.forward; the error it raises, "" when none
MeasurementRaises(is_dict, keys, n_obs, rank, n, d) ==
    IF ~is_dict THEN "AssertionError"                       \* type(observations) == dict
    ELSE IF rank # 3 THEN "AssertionError"                  \* len(states.shape) == 3
    ELSE IF \E q \in DOMAIN ModalityKeys : ModalityKeys[q] \notin keys THEN "KeyError"
    ELSE IF n_obs # n /\ n_obs # 1 THEN "RuntimeError"      \* expand(N, M, units * 3)
    ELSE IF d # StateDim THEN "RuntimeError"                \* nn.Linear(state_dim, units)
    ELSE ""

\* the rows a sub-network of the observations is evaluated on: the
\* observations as given, (N, ...), before any expansion over the particles
SubnetRowsPerParticle(n_obs, m) == n_obs * m
SubnetRows(n_obs, m) == n_obs

\* observation_features[:, np.newaxis, :].expand(N, M, units * 3): the row of
\* the observation features that particle (i, j) is fused with
FeatureRow(n_obs, i, j) == IF n_obs = 1 THEN 1 ELSE i

MeasurementForward(is_dict, keys, n_obs, rank, states) ==
    LET n == Len(states)
        m == Len(states[1])
        raised == MeasurementRaises(is_dict, keys, n_obs, rank, n, Dim(states))
    IN  /\ pc' = "returned"
        /\ op' = "PandaMeasurementModel.forward"
        /\ args' = [fn |-> "PandaMeasurementModel.forward"]
        /\ error' = raised
        /\ fwd' = [model |-> "measurement", is_dict |-> is_dict, keys |-> keys,
                   n_obs |-> n_obs, rank |-> rank, states |-> states,
                   \* per modality: the calls of its sub-network and the rows it saw
                   evals |-> IF raised # "" THEN <<>>
                             ELSE [q \in DOMAIN ModalityKeys |->
                                     [calls |-> 1, rows |-> SubnetRows(n_obs, m)]],
                   feature_row |-> IF raised # "" THEN <<>>
                                   ELSE [i \in 1..n |-> [j \in 1..m |->
                                           FeatureRow(n_obs, i, j)]],
                   out_shape |-> IF raised # "" THEN <<>> ELSE <<n, m>>]
        /\ BlankRollout
        /\ BlankLoop
        /\ BlankTraining
        /\ UNCHANGED threaded

----------------------------------------------------------------------------
\* The caller takes the result (or the exception) of the call.
ReturnToCaller ==
    /\ pc \in {"returned", "error"}
    /\ pc' = "idle"
    /\ op' = "none"
    /\ args' = NoArgs
    /\ error' = ""
    /\ BlankRollout
    /\ BlankLoop
    /\ BlankTraining
    /\ fwd' = NoFwd
    /\ threaded' = {}

\* The same, in a caller that goes on to the next epoch of train_e2e and
\* keeps what its calls have shown of the threading of particles.
NextEpoch ==
    /\ pc \in {"returned", "error"}
    /\ op = "train_e2e"
    /\ pc' = "idle"
    /\ op' = "none"
    /\ args' = NoArgs
    /\ error' = ""
    /\ BlankRollout
    /\ BlankLoop
    /\ BlankTraining
    /\ fwd' = NoFwd
    /\ UNCHANGED threaded

Init ==
    /\ pc = "idle"
    /\ op = "none"
    /\ args = NoArgs
    /\ error = ""
    /\ lens = <<>>
    /\ end_time = 0
    /\ t = 0
    /\ N = 0
    /\ M = 0
    /\ timesteps = 0
    /\ batches_left = 0
    /\ batch_idx = 0
    /\ particles = NoTensor
    /\ log_weights = <<>>
    /\ ncalls = 0
    /\ last_call = NoCall
    /\ prev_ret = NoRet
    /\ last_ret = NoRet
    /\ predicted_states = <<>>
    /\ actual_states = <<>>
    /\ losses = <<>>
    /\ losses_bound = FALSE
    /\ optimizer_steps = 0
    /\ last_min = NoMin
    /\ threaded = {}
    /\ fwd = NoFwd

Trajectories == SeqsUpTo(0..MaxLen, MaxTraj)

Next ==
    \/ /\ CanStart
       /\ \E fn \in {"rollout", "rollout_and_eval"}, ls \in Trajectories,
             start_time \in 0..MaxStart, max_timesteps \in 0..MaxSteps,
             particle_count \in 1..MaxM, noisy_dynamics \in BOOLEAN,
             true_initial \in BOOLEAN :
               RolloutStart(fn, ls, start_time, max_timesteps, particle_count,
                            noisy_dynamics, true_initial)
    \/ RolloutStep
    \/ RolloutReturn
    \/ /\ CanStart
       /\ \E loss_type \in LossTypes, resample \in BOOLEAN,
             know_image_blackout \in BOOLEAN, nb \in 0..MaxBatches :
               TrainE2EStart(loss_type, resample, know_image_blackout, nb)
    \/ E2ENextBatch
    \/ E2EStep
    \/ E2EMinimize
    \/ E2EEpochEnd
    \/ /\ CanStart
       /\ \E loss_type \in LossTypes, nb \in 0..MaxBatches :
               TrainRecurrentStart(loss_type, nb)
    \/ RecNextBatch
    \/ RecStep
    \/ RecMinimize
    \/ RecEpochEnd
    \/ /\ CanStart
       /\ \E rank \in {2, 3}, n \in 1..MaxN, m \in 1..MaxM, d \in {2, 4}, k \in {2, 4},
             noisy \in BOOLEAN, nc \in 1..MaxN, cval \in {0, 1} :
           \E states_prev \in Tensors(n, m, ParticleVals(d)),
              noise \in Tensors(n, m, NoiseVals(k)) :
               SimpleDynamicsForward(rank, states_prev,
                                     [rank |-> 2, n |-> nc, dim |-> ControlDim, val |-> cval],
                                     noisy, k, noise)
    \/ /\ CanStart
       /\ \E rank \in {2, 3}, n \in 1..MaxN, m \in 1..MaxM, d \in {2, 4}, k \in {2, 4},
             noisy \in BOOLEAN, nc \in 1..MaxN, crank \in {1, 2}, w \in {0, 1} :
           \E states_prev \in Tensors(n, m, ParticleVals(d)),
              noise \in Tensors(n, m, NoiseVals(k)) :
               DynamicsForward(w, rank, states_prev,
                               [rank |-> crank, n |-> nc, dim |-> ControlDim, val |-> 1],
                               noisy, k, noise)
    \/ /\ CanStart
       /\ \E is_dict \in BOOLEAN,
             keys \in SUBSET {"image", "gripper_pos", "gripper_sensors", "extra"},
             n_obs \in 1..MaxN, rank \in {2, 3}, n \in 1..MaxN, m \in 1..MaxM,
             d \in {2, 4} :
           \E states \in Tensors(n, m, ParticleVals(d)) :
               MeasurementForward(is_dict, keys, n_obs, rank, states)
    \/ ReturnToCaller

Spec == Init /\ [][Next]_vars

\* The for loop of rollout goes on to its next iteration, or past its end,
\* whenever it can: the interpreter does not stop inside a running call.
SpecFair == Spec /\ WF_vars(RolloutStep) /\ WF_vars(RolloutReturn)

\* a run of epochs of train_e2e, with any arguments
NextEpochs ==
    \/ /\ CanStart
       /\ \E loss_type \in LossTypes, resample \in BOOLEAN,
             know_image_blackout \in BOOLEAN, nb \in 0..MaxBatches :
               TrainE2EStart(loss_type, resample, know_image_blackout, nb)
    \/ E2ENextBatch
    \/ E2EStep
    \/ E2EMinimize
    \/ E2EEpochEnd
    \/ NextEpoch

SpecEpochs == Init /\ [][NextEpochs]_vars

----------------------------------------------------------------------------
\* Properties

\* C1: whenever rollout returns, predicted_states and actual_states have the
\* same shape (N, T): every trajectory has as many predicted states (the
\* initial particle mean plus one estimate per filter step) as ground-truth
\* states in states[start_time:end_time], with T = end_time - start_time and
\* end_time the minimum of the trajectory lengths and start_time + max_timesteps.
C1_RolloutShapes ==
    (op = "rollout" /\ pc = "returned") =>
        /\ Shape(predicted_states) = Shape(actual_states)
        /\ Len(predicted_states) = Len(lens)
        /\ \A i \in 1..Len(lens) :
            /\ Len(predicted_states[i]) = 1 + ncalls
            /\ Len(predicted_states[i]) = Len(actual_states[i])
            /\ Len(actual_states[i]) = end_time - args.start_time
        /\ \A l \in Range(lens) : end_time <= l
        /\ end_time <= args.start_time + args.max_timesteps
        /\ end_time \in Range(lens) \cup {args.start_time + args.max_timesteps}

C1_Witness ==
    /\ op = "rollout"
    /\ pc = "returned"
    /\ Len(lens) = 2
    /\ lens[1] # lens[2]
    /\ args.start_time = 1
    /\ ncalls >= 1

\* C2: in rollout and rollout_and_eval every filter step is called with
\* resample=True and with the caller's noisy_dynamics.
C2_RolloutFlags ==
    (InRollout /\ ncalls >= 1) =>
        /\ last_call.resample = TRUE
        /\ last_call.noisy_dynamics = args.noisy_dynamics

C2_Witness ==
    /\ op = "rollout_and_eval"
    /\ ncalls >= 2
    /\ args.noisy_dynamics = FALSE
    /\ last_call.resample

\* C3: in train_e2e and rollout the first filter step of a sequence gets the
\* log-weight -log(M) for each of the M particles of each of the N
\* trajectories (exp sums to 1 per trajectory); every later step gets exactly
\* the particles and log-weights the step before it returned; and as the
\* steps return normalized log-weights, every step gets normalized ones.
C3_WeightsThreaded ==
    (op \in {"train_e2e", "rollout"} /\ ncalls >= 1) =>
        /\ ncalls = 1 =>
            /\ Len(last_call.log_weights) = N
            /\ \A i \in 1..N :
                /\ Len(last_call.log_weights[i]) = M
                /\ \A j \in 1..M : /\ last_call.log_weights[i][j].num = 1
                                   /\ last_call.log_weights[i][j].den = M
        /\ ncalls >= 2 =>
            /\ last_call.particles = prev_ret.particles
            /\ last_call.log_weights = prev_ret.log_weights
        /\ Normalized(last_call.log_weights)

C3_Witness ==
    /\ op = "train_e2e"
    /\ ncalls >= 2
    /\ M = 2
    /\ last_call.log_weights = SkewedLogWeights(N, M)
    /\ last_call.particles.val = 1

\* C4: in train_e2e a batch with timesteps >= 2 reaches buddy.minimize exactly
\* once, after its timesteps-1 filter steps, with timesteps-1 losses; no
\* optimizer step happens while the filter steps of a batch run.
C4_OneMinimizePerBatch ==
    op = "train_e2e" =>
        /\ pc = "e2e_loop" => optimizer_steps = batch_idx - 1
        /\ (pc \in {"e2e_next", "returned"} /\ batch_idx >= 1) =>
            /\ optimizer_steps = batch_idx
            /\ timesteps >= 2
            /\ last_min.n_losses = timesteps - 1
            /\ last_min.after_steps = timesteps - 1
        /\ (pc = "error" /\ batch_idx >= 1 /\ timesteps >= 2) =>
            /\ args.loss_type \notin {"mse", "gmm"}
            /\ optimizer_steps = batch_idx - 1

C4_Witness ==
    /\ op = "train_e2e"
    /\ pc = "e2e_next"
    /\ batch_idx = 2
    /\ optimizer_steps = 2
    /\ timesteps = 3
    /\ last_min.n_losses = 2

\* C5: every filter step of train_e2e and rollout is given the observation
\* and the control of the timestep t whose true state its estimate is
\* compared with.
C5_CurrentObservation ==
    /\ (op = "train_e2e" /\ pc # "idle") =>
        \A k \in 1..Len(losses) : /\ losses[k].obs = losses[k].truth
                                  /\ losses[k].ctrl = losses[k].truth
    /\ (op = "rollout" /\ pc \in {"rollout_loop", "returned"}) =>
        \A i \in 1..N : \A k \in 2..Len(predicted_states[i]) :
            /\ predicted_states[i][k].obs = actual_states[i][k]
            /\ predicted_states[i][k].ctrl = actual_states[i][k]

\* C6: after a dynamics forward with noisy=True on states that carry a
\* (cos, sin) pair in the dimensions 2:4, every particle of every trajectory
\* has cos^2 + sin^2 = 1.
C6_UnitNorm ==
    (/\ fwd.model \in {"simple", "learned"}
     /\ error = ""
     /\ fwd.noisy
     /\ Dim(fwd.states_prev) >= 4) =>
        \A i \in DOMAIN fwd.out.vals : \A j \in DOMAIN fwd.out.vals[i] :
            UnitNorm(fwd.out, i, j)

\* C7: a dynamics forward whose controls have another batch size than
\* states_prev raises an error and returns no states.
C7_ControlsBatchChecked ==
    (/\ fwd.model \in {"simple", "learned"}
     /\ fwd.controls.n # Len(fwd.states_prev)) =>
        /\ error # ""
        /\ fwd.out = NoOut

\* C8: train_e2e and train_dynamics_recurrent with an unsupported loss_type
\* raise before any model or filter step is invoked and before any optimizer
\* step, whatever the dataloader yields.
C8_FailFast ==
    (\/ op = "train_e2e" /\ args.loss_type \notin {"mse", "gmm"}
     \/ op = "train_dynamics_recurrent" /\ ~RecurrentAccepts(args.loss_type)) =>
        /\ ncalls = 0
        /\ optimizer_steps = 0
        /\ pc # "returned"

\* C9: PandaMeasurementModel.forward raises whenever the observations are not
\* a dict with exactly the keys image, gripper_pos and gripper_sensors.
C9_ExactKeys ==
    (/\ fwd.model = "measurement"
     /\ \/ ~fwd.is_dict
        \/ fwd.keys # Range(ModalityKeys)) =>
        error # ""

\* C10: an argument of train_e2e selects whether the particles and
\* log-weights threaded between filter steps are detached or attached: once
\* epochs with every setting of its flags have threaded particles, both a
\* detached and an attached threading have been seen.
C10_DetachSelectable ==
    ({<<x.resample, x.know_image_blackout>> : x \in threaded} = BOOLEAN \X BOOLEAN) =>
        /\ \E x \in threaded : ~x.attached
        /\ \E x \in threaded : x.attached

\* C11: PandaSimpleDynamicsModel.forward with noisy = False is the identity
\* on the particles: for every states_prev of shape (N, M, D) with D the
\* configured noise dimension and every controls, it raises nothing and
\* returns states_prev element for element, so the result does not depend on
\* the controls.
C11_NoiselessIdentity ==
    (/\ fwd.model = "simple"
     /\ ~fwd.noisy
     /\ fwd.rank = 3
     /\ Dim(fwd.states_prev) = fwd.stddev_len) =>
        /\ error = ""
        /\ fwd.out = Unscaled(fwd.states_prev)

\* a noiseless call on distinct particles, with controls of another batch size
C11_Witness ==
    /\ fwd.model = "simple"
    /\ ~fwd.noisy
    /\ error = ""
    /\ Dim(fwd.states_prev) = 4
    /\ fwd.controls.n # Len(fwd.states_prev)
    /\ fwd.controls.val = 1
    /\ Len(fwd.states_prev[1]) = 2
    /\ fwd.states_prev[1][1] # fwd.states_prev[1][2]
    /\ fwd.out.vals = fwd.states_prev

Max0(x) == IF x > 0 THEN x ELSE 0

\* C12 as stated: rollout on at least one trajectory runs the filter step
\* max(0, end_time - start_time - 1) times in all, with end_time the minimum of
\* the shortest trajectory length and start_time + max_timesteps, and never
\* more than max_timesteps - 1 times.
C12_AtMostMaxTimestepsMinusOne ==
    (op = "rollout" /\ Len(lens) >= 1) =>
        /\ end_time = Min(Range(lens) \cup {args.start_time + args.max_timesteps})
        /\ pc \in {"returned", "error"} =>
              ncalls = Max0(end_time - args.start_time - 1)
        /\ ncalls <= args.max_timesteps - 1

\* C12, amended: rollout always terminates (it returns, or raises IndexError
\* before the loop); on at least one trajectory it has then run the filter
\* step exactly max(0, end_time - start_time - 1) times, with end_time the
\* minimum of the shortest trajectory length and start_time + max_timesteps;
\* and it never runs more than max(0, max_timesteps - 1) filter steps,
\* whatever the trajectory lengths.
C12_TerminatesWithinCap ==
    /\ [](op = "rollout" =>
            /\ end_time = Min(Range(lens) \cup {args.start_time + args.max_timesteps})
            /\ (pc \in {"returned", "error"} /\ Len(lens) >= 1) =>
                  ncalls = Max0(end_time - args.start_time - 1)
            /\ ncalls <= Max0(end_time - args.start_time - 1)
            /\ ncalls <= Max0(args.max_timesteps - 1))
    /\ (op = "rollout" /\ pc = "rollout_loop") ~> (pc \in {"returned", "error"})

\* a rollout cut by max_timesteps, not by the trajectories, has returned
C12_Witness ==
    /\ op = "rollout"
    /\ pc = "returned"
    /\ Len(lens) = 2
    /\ \A i \in 1..2 : lens[i] > args.start_time + args.max_timesteps
    /\ ncalls = 2
    /\ ncalls = args.max_timesteps - 1

\* C13: with true_initial = True, rollout and rollout_and_eval centre the
\* initial particles of trajectory i on that trajectory's state at
\* start_time, the first element of actual_states[i], for every
\* start_time >= 0.
C13_CenteredOnWindowStart ==
    (/\ InRollout
     /\ pc = "rollout_loop"
     /\ ncalls = 0
     /\ args.true_initial) =>
        \A i \in 1..N :
            /\ particles.center[i] = States(lens[i])[args.start_time + 1]
            /\ particles.center[i] = actual_states[i][1]

\* C14: a call of PandaMeasurementModel.forward that returns has evaluated
\* each of the three observation sub-networks exactly once, on the rows of
\* the observation batch (N of them for N trajectories) and not once per
\* particle, whatever M is; all M particles of a trajectory are fused with
\* the same observation features; and the result has shape (N, M).
C14_ObservationsEncodedOnce ==
    (fwd.model = "measurement" /\ error = "") =>
        LET n == Len(fwd.states)
            m == Len(fwd.states[1])
        IN  /\ DOMAIN fwd.evals = DOMAIN ModalityKeys
            /\ \A q \in DOMAIN ModalityKeys :
                  /\ fwd.evals[q].calls = 1
                  /\ fwd.evals[q].rows = fwd.n_obs
                  /\ fwd.evals[q].rows <= n
                  /\ fwd.n_obs = n => fwd.evals[q].rows = n
            /\ \A i \in 1..n : \A j \in 1..m :
                  fwd.feature_row[i][j] = fwd.feature_row[i][1]
            /\ fwd.out_shape = <<n, m>>

\* two trajectories with two particles each have been weighted
C14_Witness ==
    /\ fwd.model = "measurement"
    /\ error = ""
    /\ fwd.n_obs = 2
    /\ Len(fwd.states) = 2
    /\ Len(fwd.states[1]) = 2
    /\ fwd.states[1][1] # fwd.states[1][2]
    /\ fwd.evals[1].rows = 2
    /\ fwd.out_shape = <<2, 2>>

\* C15: for every loss_type the entry assertion of train_dynamics_recurrent
\* accepts ('l1', 'l2', 'huber', 'peter'), a batch with timesteps >= 2 raises
\* nothing, computes one loss for each t in 1..timesteps-1 and reaches
\* exactly one optimizer step.
C15_AcceptedLossTypesTrain ==
    (/\ op = "train_dynamics_recurrent"
     /\ RecurrentAccepts(args.loss_type)
     /\ batch_idx >= 1
     /\ timesteps >= 2) =>
        /\ pc # "error"
        /\ pc = "rec_loop" => optimizer_steps = batch_idx - 1
        /\ pc = "rec_next" =>
              /\ last_min.n_losses = timesteps - 1
              /\ \A k \in 1..Len(losses) : losses[k].truth = k
              /\ optimizer_steps = batch_idx

\* C16: after any call of PandaSimpleDynamicsModel.forward or
\* PandaDynamicsModel.forward, noisy or not, raising or not, the caller's
\* states_prev holds what it held before the call: the noise and the cos/sin
\* rescaling went to a fresh tensor.
C16_StatesPrevUntouched ==
    fwd.model \in {"simple", "learned"} =>
        /\ fwd.states_prev_after = Unscaled(fwd.states_prev)
        /\ (error = "" /\ fwd.out # Unscaled(fwd.states_prev)) =>
              fwd.out # fwd.states_prev_after

\* a noisy call of the simple model that added noise and rescaled cos/sin
C16_Witness ==
    /\ fwd.model = "simple"
    /\ fwd.noisy
    /\ error = ""
    /\ Dim(fwd.states_prev) = 4
    /\ fwd.out.vals # fwd.states_prev
    /\ fwd.out.div2 # 1

====
